---- MODULE Spec2Model ----
(***************************************************************************)
(* A model of Assignment_2_Paths.py: the adjacency-map Graph, the          *)
(* adaptable priority queue APQ, dijkstra() and RouteMap.sp().             *)
(*                                                                         *)
(* Python lists are modelled as TLA+ sequences; a Python index i (which    *)
(* may be negative and then counts from the end) is resolved by Pos.       *)
(* Objects with identity (Element, Vertex, Edge) are numbered in creation  *)
(* order: two references are the same object iff the numbers are equal.    *)
(***************************************************************************)
EXTENDS Integers, Sequences, FiniteSets, TLC

VARIABLES
    queue,       \* APQ._queue: the heap array, a sequence of Element ids
    elems,       \* every Element created so far: id -> [key, value, index]
    ops,         \* names of the mutating APQ methods called so far
    detached,    \* the Elements that remove or remove_min has returned
    vlabel,      \* Graph._structure keys in insertion order: vertex id -> element
    structure,   \* Graph._structure values: vertex id -> adjacency dict (ordered)
    findvertex,  \* RouteMap._findvertex: element -> vertex id
    vertexcoords,\* RouteMap._vertexcoords: vertex id -> (coord1, coord2)
    nedge,       \* number of Edge objects created so far
    cls,         \* the class of the graph object: "Graph" or "RouteMap"
    run,         \* the locals of the dijkstra()/sp() call in progress
    res,         \* the last call: its name, arguments, outcome and return value
                 \* (an Element, Vertex or Edge by its number, 0 for None)
    pre          \* the state the last call started from

vars == <<queue, elems, ops, detached, vlabel, structure, findvertex, vertexcoords, nedge, cls, run, res, pre>>

\* ---------------------------------------------------------------- bounds
MaxElems == 3      \* Elements created in one APQ
MaxKey == 2        \* keys passed to add/update_key are 0..MaxKey
MaxVerts == 3      \* vertices added to one graph
MaxEdges == 3      \* add_edge calls on one graph
MaxFewEdges == 2    \* add_edge calls where the labels or the destinations vary too
MaxPairs == 2      \* pairs in the list passed to add_edge_pairs

Keys == 0..MaxKey
AllLabels == <<"A", "B", "C", "D", "E">>
Labels == {AllLabels[i] : i \in 1..MaxVerts}
Items == {"A"}
Costs == {1, 3}
None == "None"

\* the None that add_edge_pairs passes as the element of its Edges, as a
\* number that no cost is (the elements of the other Edges are numbers)
NoneElement == -1

\* ------------------------------------------------------- Python lists
Range(s) == {s[i] : i \in 1..Len(s)}

\* list[i] raises IndexError unless -len <= i < len
InRange(q, i) == i >= -Len(q) /\ i < Len(q)

\* the 1-based position of Python index i
Pos(q, i) == IF i >= 0 THEN i + 1 ELSE Len(q) + i + 1

At(q, i) == q[Pos(q, i)]

\* q[i], q[j] = q[j], q[i]
SwapAt(q, i, j) == [q EXCEPT ![Pos(q, i)] = q[Pos(q, j)], ![Pos(q, j)] = q[Pos(q, i)]]

\* list.pop(-1)
PopLast(q) == SubSeq(q, 1, Len(q) - 1)

\* ------------------------------------------------------------ Element
\* Element(k, v, i)
Element(k, v, i) == [key |-> k, value |-> v, index |-> i]

\* An APQ value: h.q the array, h.e the elements, h.st the outcome so far
\* ("ok", "IndexError", "KeyError", or "hang" for a loop that never ends).
APQ == [q |-> <<>>, e |-> <<>>, st |-> "ok"]

Raise(h, err) == [h EXCEPT !.st = err]

\* Element.__lt__ on the entries at Python indices i and j
Lt(h, i, j) == h.e[At(h.q, i)].key < h.e[At(h.q, j)].key

\* self._queue[i]._index = v
SetIndex(h, i, v) == [h EXCEPT !.e[At(h.q, i)].index = v]

\* the three lines of a swap, in the order the code runs them:
\*   self._queue[i]._index = j; self._queue[j]._index = i; swap
SwapEntries(h, i, j) ==
    LET h1 == SetIndex(h, i, j)
        h2 == SetIndex(h1, j, i)
    IN  [h2 EXCEPT !.q = SwapAt(h2.q, i, j)]

min_leaf(h, i) ==
    IF 2 * i + 2 > Len(h.q) - 1 THEN 2 * i + 1
    ELSE IF Lt(h, 2 * i + 1, 2 * i + 2) THEN 2 * i + 1
    ELSE 2 * i + 2

\* the list reads of min_leaf(i) all succeed
MinLeafReads(h, i) ==
    2 * i + 2 > Len(h.q) - 1 \/ (InRange(h.q, 2 * i + 1) /\ InRange(h.q, 2 * i + 2))

RECURSIVE bubble_down(_, _)
bubble_down(h, index) ==
    IF ~(2 * index + 1 < Len(h.q)) THEN h
    ELSE IF ~InRange(h.q, index) \/ ~MinLeafReads(h, index) THEN Raise(h, "IndexError")
    ELSE LET ml == min_leaf(h, index) IN
         IF ~InRange(h.q, ml) THEN Raise(h, "IndexError")
         ELSE IF Lt(h, index, ml) THEN h
         ELSE LET h1 == SwapEntries(h, index, ml) IN
              \* min_leaf(-1) can be -1: the entry is swapped with itself and
              \* the loop repeats from the same index for ever
              IF ml = index THEN Raise(h1, "hang")
              ELSE bubble_down(h1, ml)

RECURSIVE bubble_up_loop(_, _)
bubble_up_loop(h, index) ==
    LET parent == (index - 1) \div 2 IN
    IF ~InRange(h.q, index) \/ ~InRange(h.q, parent) THEN Raise(h, "IndexError")
    ELSE IF Lt(h, index, parent) THEN bubble_up_loop(SwapEntries(h, index, parent), parent)
    ELSE h

bubble_up(h, index) == IF index > 0 THEN bubble_up_loop(h, index) ELSE h

\* add(key, item): the queue after the call; the new Element is Len(h.e) + 1
add(h, key, item) ==
    LET i == Len(h.q)
        h1 == [h EXCEPT !.q = Append(h.q, Len(h.e) + 1),
                        !.e = Append(h.e, Element(key, item, i))]
    IN  bubble_up(h1, i)

\* min(): the Element id returned, 0 when the call raises
min(h) == IF InRange(h.q, 0) THEN At(h.q, 0) ELSE 0

\* remove_min that starts with "if not self._queue: return None"
remove_min_quiet(h) ==
    IF ~InRange(h.q, 0) THEN [h |-> h, ret |-> 0]
    ELSE LET n == Len(h.q)
             h1 == SetIndex(h, 0, n - 1)
             h2 == SetIndex(h1, n - 1, 0)
             h3 == [h2 EXCEPT !.q = SwapAt(h2.q, 0, -1)]
             removed == At(h3.q, -1)
             h4 == [h3 EXCEPT !.q = PopLast(h3.q)]
             h5 == bubble_down(h4, 0)
         IN  [h |-> h5, ret |-> IF h5.st = "ok" THEN removed ELSE 0]

\* remove_min(): [h |-> the queue after, ret |-> the Element returned (0: raised)]
remove_min(h) ==
    IF ~InRange(h.q, 0) THEN [h |-> Raise(h, "IndexError"), ret |-> 0]
    ELSE LET n == Len(h.q)
             h1 == SetIndex(h, 0, n - 1)
             h2 == SetIndex(h1, n - 1, 0)
             h3 == [h2 EXCEPT !.q = SwapAt(h2.q, 0, -1)]
             removed == At(h3.q, -1)
             h4 == [h3 EXCEPT !.q = PopLast(h3.q)]
             h5 == bubble_down(h4, 0)
         IN  [h |-> h5, ret |-> IF h5.st = "ok" THEN removed ELSE 0]

\* update_key without "element._key = newkey"
update_key_stale(h, element, newkey) ==
    IF h.e[element].key > newkey THEN bubble_up(h, h.e[element].index)
    ELSE IF h.e[element].key < newkey THEN bubble_down(h, h.e[element].index)
    ELSE h

update_key(h, element, newkey) ==
    IF h.e[element].key > newkey
    THEN bubble_up([h EXCEPT !.e[element].key = newkey], h.e[element].index)
    ELSE IF h.e[element].key < newkey
    THEN bubble_down([h EXCEPT !.e[element].key = newkey], h.e[element].index)
    ELSE h

get_key(h, element) == h.e[element].key

\* remove(element): [h |-> the queue after, ret |-> the Element returned (0: raised)]
remove(h, element) ==
    IF ~InRange(h.q, h.e[element].index) THEN [h |-> Raise(h, "IndexError"), ret |-> 0]
    ELSE LET n == Len(h.q)
             \* line 355; element._index is read again by every later line
             h1 == SetIndex(h, h.e[element].index, n - 1)
         IN  IF ~InRange(h1.q, h1.e[element].index)
             THEN [h |-> Raise(h1, "IndexError"), ret |-> 0]
             ELSE LET h2 == SetIndex(h1, n - 1, h1.e[element].index)
                  IN  IF ~InRange(h2.q, h2.e[element].index)
                      THEN [h |-> Raise(h2, "IndexError"), ret |-> 0]
                      ELSE LET h3 == [h2 EXCEPT !.q = SwapAt(h2.q, h2.e[element].index, -1)]
                               removed == At(h3.q, -1)
                               h4 == [h3 EXCEPT !.q = PopLast(h3.q)]
                               h5 == bubble_down(h4, h4.e[element].index)
                               h6 == IF h5.st = "ok"
                                     THEN bubble_up(h5, h5.e[element].index) ELSE h5
                           IN  [h |-> h6, ret |-> IF h6.st = "ok" THEN removed ELSE 0]

\* ------------------------------------------------------- Python dicts
\* A dict is the sequence of its items [k, v] in insertion order.
DictHas(d, k) == \E i \in 1..Len(d) : d[i].k = k

DictGet(d, k) == d[CHOOSE i \in 1..Len(d) : d[i].k = k].v

\* d[k] = v: a key already present keeps its place
DictSet(d, k, v) ==
    IF DictHas(d, k)
    THEN [i \in 1..Len(d) |-> IF d[i].k = k THEN [k |-> k, v |-> v] ELSE d[i]]
    ELSE Append(d, [k |-> k, v |-> v])

DictKeys(d) == {d[i].k : i \in 1..Len(d)}

\* d.pop(k) of a key that is present
DictPop(d, k) == SelectSeq(d, LAMBDA it : it.k # k)

\* ------------------------------------------------------------ the graph
\* A graph value g: g.vlabel the vertices of _structure in insertion order
\* (vertex id -> element), g.structure their adjacency dicts (neighbour id ->
\* Edge), g.findvertex the RouteMap index, g.nedge the Edges created,
\* g.vertexcoords the RouteMap coordinates.
\* Vertex 0 stands for None and for a Vertex object that was never added to
\* the graph (neither is a key of _structure); -1 for a lookup that raised.
Edge(id, v, w, element) == [id |-> id, v |-> v, w |-> w, element |-> element]

\* the None that stands where an Edge is expected
NoEdge == Edge(0, 0, 0, 0)

\* opposite as "return self._vertices[1]"
opposite_end(e, v) == e.w

\* Edge.opposite(v); 0 is the None returned for a vertex that is no endpoint
opposite(e, v) == IF e.v = v THEN e.w ELSE IF e.w = v THEN e.v ELSE 0

\* v in self._structure
IsVertex(g, v) == v \in 1..Len(g.vlabel)

RECURSIVE SumLen(_, _)
SumLen(st, n) == IF n = 0 THEN 0 ELSE Len(st[n]) + SumLen(st, n - 1)

num_edges(g) == SumLen(g.structure, Len(g.structure)) \div 2

\* Graph.get_vertex_by_label: the first vertex whose element matches, or None
Graph_get_vertex_by_label(g, element) ==
    IF \E v \in 1..Len(g.vlabel) : g.vlabel[v] = element
    THEN CHOOSE v \in 1..Len(g.vlabel) :
            /\ g.vlabel[v] = element
            /\ \A u \in 1..(v - 1) : g.vlabel[u] # element
    ELSE 0

\* RouteMap.get_vertex_by_label: self._findvertex[element]; -1 for its KeyError
RouteMap_get_vertex_by_label(g, element) ==
    IF DictHas(g.findvertex, element) THEN DictGet(g.findvertex, element) ELSE -1

get_vertex_by_label(g, element) ==
    IF g.cls = "RouteMap" THEN RouteMap_get_vertex_by_label(g, element)
    ELSE Graph_get_vertex_by_label(g, element)

\* get_edges(v): the Edges of v's adjacency dict in its order; <<>> also
\* stands for the None returned for a v that is not in the graph, which
\* dijkstra treats as it treats an empty list
get_edges(g, v) ==
    IF IsVertex(g, v)
    THEN [i \in 1..Len(g.structure[v]) |-> g.structure[v][i].v]
    ELSE <<>>

get_edge(g, v, w) ==
    IF IsVertex(g, v) /\ DictHas(g.structure[v], w)
    THEN DictGet(g.structure[v], w)
    ELSE NoEdge

\* Graph.add_vertex(element): the new Vertex is Len(g.vlabel) + 1
Graph_add_vertex(g, element) ==
    [g EXCEPT !.vlabel = Append(g.vlabel, element),
              !.structure = Append(g.structure, <<>>)]

\* RouteMap.add_vertex(element), the coordinates left at their default None
RouteMap_add_vertex(g, element) ==
    [g EXCEPT !.findvertex = DictSet(g.findvertex, element, Len(g.vlabel) + 1),
              !.vertexcoords = DictSet(g.vertexcoords, Len(g.vlabel) + 1, <<None, None>>),
              !.vlabel = Append(g.vlabel, element),
              !.structure = Append(g.structure, <<>>)]

add_vertex(g, element) ==
    IF g.cls = "RouteMap" THEN RouteMap_add_vertex(g, element)
    ELSE Graph_add_vertex(g, element)

\* add_vertex_if_new(element): the scan of self._structure in its order, and
\* add_vertex (that of the object's class) on a miss;
\* [g |-> the graph after, ret |-> the Vertex]
add_vertex_if_new(g, element) ==
    IF \E v \in 1..Len(g.vlabel) : g.vlabel[v] = element
    THEN [g |-> g,
          ret |-> CHOOSE v \in 1..Len(g.vlabel) :
                     /\ g.vlabel[v] = element
                     /\ \A u \in 1..(v - 1) : g.vlabel[u] # element]
    ELSE [g |-> add_vertex(g, element), ret |-> Len(g.vlabel) + 1]

\* add_edge with the oneway flag ignored: the edge goes into both dicts
add_edge_twoway(g, v, w, element, oneway) ==
    IF ~IsVertex(g, v) \/ ~IsVertex(g, w) THEN [g |-> g, ret |-> NoEdge]
    ELSE LET e == Edge(g.nedge + 1, v, w, element)
             g1 == [g EXCEPT !.nedge = g.nedge + 1]
             g2 == [g1 EXCEPT !.structure[v] = DictSet(g1.structure[v], w, e)]
         IN  [g |-> [g2 EXCEPT !.structure[w] = DictSet(g2.structure[w], v, e)],
              ret |-> e]

\* add_edge that tests only "v not in self._structure": with w absent the
\* edge is stored in v's dict (and the write to w's dict then fails)
add_edge_v_tested(g, v, w, element, oneway) ==
    IF ~IsVertex(g, v) THEN [g |-> g, ret |-> NoEdge]
    ELSE LET e == Edge(g.nedge + 1, v, w, element)
             g1 == [g EXCEPT !.nedge = g.nedge + 1]
             g2 == [g1 EXCEPT !.structure[v] = DictSet(g1.structure[v], w, e)]
         IN  IF oneway = TRUE \/ v = w THEN [g |-> g2, ret |-> e]
             ELSE IF ~IsVertex(g, w) THEN [g |-> g2, ret |-> NoEdge]
             ELSE [g |-> [g2 EXCEPT !.structure[w] = DictSet(g2.structure[w], v, e)],
                   ret |-> e]

\* add_edge(v, w, element, oneway): [g |-> the graph after, ret |-> the Edge or NoEdge]
add_edge(g, v, w, element, oneway) ==
    IF ~IsVertex(g, v) \/ ~IsVertex(g, w) THEN [g |-> g, ret |-> NoEdge]
    ELSE LET e == Edge(g.nedge + 1, v, w, element)
             g1 == [g EXCEPT !.nedge = g.nedge + 1]
         IN  IF oneway = TRUE \/ v = w
             THEN [g |-> [g1 EXCEPT !.structure[v] = DictSet(g1.structure[v], w, e)],
                   ret |-> e]
             ELSE [g |-> [g1 EXCEPT !.structure[v] = DictSet(g1.structure[v], w, e),
                                    !.structure[w] = DictSet(g1.structure[w], v, e)],
                   ret |-> e]

\* add_edge_pairs(elist): add_edge(v, w, None) for each pair of the list in
\* turn; the graph after (the method returns None)
RECURSIVE add_edge_pairs(_, _)
add_edge_pairs(g, elist) ==
    IF elist = <<>> THEN g
    ELSE add_edge_pairs(add_edge(g, Head(elist)[1], Head(elist)[2], NoneElement, FALSE).g,
                        Tail(elist))

\* no graph is under test, no call is running
NoGraph ==
    /\ vlabel = <<>>
    /\ structure = <<>>
    /\ findvertex = <<>>
    /\ vertexcoords = <<>>
    /\ nedge = 0
    /\ cls = "Graph"

Idle == [pc |-> "idle"]

\* ------------------------------------------------- the APQ as a machine
Heap == [q |-> queue, e |-> elems, st |-> "ok"]

InQueue == Range(queue)

Snapshot == [q |-> queue, e |-> elems, ops |-> ops, detached |-> detached]

\* a call that never returns leaves nothing to call afterwards
Running == res.st # "hang"

InitAPQ ==
    /\ queue = <<>>
    /\ elems = <<>>
    /\ ops = {}
    /\ detached = {}
    /\ NoGraph
    /\ run = Idle
    /\ res = [op |-> "init", st |-> "ok", args |-> <<>>, ret |-> 0]
    /\ pre = [q |-> <<>>, e |-> <<>>, ops |-> {}, detached |-> {}]

Add(k, item) ==
    /\ Running
    /\ Len(elems) < MaxElems
    /\ LET h == add(Heap, k, item) IN
        /\ queue' = h.q
        /\ elems' = h.e
        /\ res' = [op |-> "add", st |-> h.st, args |-> <<k, item>>,
                   ret |-> IF h.st = "ok" THEN Len(elems) + 1 ELSE 0]
    /\ ops' = ops \cup {"add"}
    /\ pre' = Snapshot
    /\ UNCHANGED <<detached, vlabel, structure, findvertex, vertexcoords, nedge, cls, run>>

Min ==
    /\ Running
    /\ res' = [op |-> "min", st |-> IF min(Heap) = 0 THEN "IndexError" ELSE "ok",
               args |-> <<>>, ret |-> min(Heap)]
    /\ pre' = Snapshot
    /\ UNCHANGED <<queue, elems, ops, detached, vlabel, structure, findvertex, vertexcoords, nedge, cls, run>>

RemoveMin ==
    /\ Running
    /\ LET r == remove_min(Heap) IN
        /\ queue' = r.h.q
        /\ elems' = r.h.e
        /\ res' = [op |-> "remove_min", st |-> r.h.st, args |-> <<>>, ret |-> r.ret]
        /\ detached' = IF r.ret # 0 THEN detached \cup {r.ret} ELSE detached
    /\ ops' = ops \cup {"remove_min"}
    /\ pre' = Snapshot
    /\ UNCHANGED <<vlabel, structure, findvertex, vertexcoords, nedge, cls, run>>

UpdateKey(element, newkey) ==
    /\ Running
    /\ LET h == update_key(Heap, element, newkey) IN
        /\ queue' = h.q
        /\ elems' = h.e
        /\ res' = [op |-> "update_key", st |-> h.st, args |-> <<element, newkey>>, ret |-> 0]
    /\ ops' = ops \cup {"update_key"}
    /\ pre' = Snapshot
    /\ UNCHANGED <<detached, vlabel, structure, findvertex, vertexcoords, nedge, cls, run>>

Remove(element) ==
    /\ Running
    /\ LET r == remove(Heap, element) IN
        /\ queue' = r.h.q
        /\ elems' = r.h.e
        /\ res' = [op |-> "remove", st |-> r.h.st, args |-> <<element>>, ret |-> r.ret]
        /\ detached' = IF r.ret # 0 THEN detached \cup {r.ret} ELSE detached
    /\ ops' = ops \cup {"remove"}
    /\ pre' = Snapshot
    /\ UNCHANGED <<vlabel, structure, findvertex, vertexcoords, nedge, cls, run>>

\* bubble_down(index) called on the queue
BubbleDown(index) ==
    /\ Running
    /\ LET h == bubble_down(Heap, index) IN
        /\ queue' = h.q
        /\ elems' = h.e
        /\ res' = [op |-> "bubble_down", st |-> h.st, args |-> <<index>>, ret |-> 0]
    /\ ops' = ops \cup {"bubble_down"}
    /\ pre' = Snapshot
    /\ UNCHANGED <<detached, vlabel, structure, findvertex, vertexcoords, nedge, cls, run>>

\* bubble_up(index) called on the queue
BubbleUp(index) ==
    /\ Running
    /\ LET h == bubble_up(Heap, index) IN
        /\ queue' = h.q
        /\ elems' = h.e
        /\ res' = [op |-> "bubble_up", st |-> h.st, args |-> <<index>>, ret |-> 0]
    /\ ops' = ops \cup {"bubble_up"}
    /\ pre' = Snapshot
    /\ UNCHANGED <<detached, vlabel, structure, findvertex, vertexcoords, nedge, cls, run>>

\* every call is made with a handle that is in the queue
NextAPQ ==
    \/ \E k \in Keys, item \in Items : Add(k, item)
    \/ Min
    \/ RemoveMin
    \/ \E element \in InQueue, k \in Keys : UpdateKey(element, k)
    \/ \E element \in InQueue : Remove(element)

SpecAPQ == InitAPQ /\ [][NextAPQ]_vars

\* calls with any handle the caller holds: one that is in the queue, or one
\* that remove or remove_min has returned
NextHandles ==
    \/ NextAPQ
    \/ \E element \in detached, k \in Keys : UpdateKey(element, k)
    \/ \E element \in detached : Remove(element)

SpecHandles == InitAPQ /\ [][NextHandles]_vars

\* queues built by add and remove_min, and bubble_down and bubble_up from
\* any position of the array
NextBubble ==
    \/ \E k \in Keys, item \in Items : Add(k, item)
    \/ RemoveMin
    \/ \E index \in 0..(Len(queue) - 1) : BubbleDown(index)
    \/ \E index \in 0..(Len(queue) - 1) : BubbleUp(index)

SpecBubble == InitAPQ /\ [][NextBubble]_vars

\* ------------------------------------------------------ claims on the APQ
\* parent.key <= entry.key for every entry below the root of array q
HeapOrdered(q, e) ==
    \A i \in 1..(Len(q) - 1) : e[q[i + 1]].key >= e[q[((i - 1) \div 2) + 1]].key

\* every entry's _index is its array position
IndicesRight(q, e) == \A i \in 0..(Len(q) - 1) : e[q[i + 1]].index = i

WellFormed(q, e) == HeapOrdered(q, e) /\ IndicesRight(q, e)

\* the least key among the entries of a non-empty array q
MinOfKeys(q, e) ==
    LET ks == {e[x].key : x \in Range(q)} IN CHOOSE k \in ks : \A j \in ks : k <= j

\* C1: after any sequence of add, update_key, remove_min and remove on handles
\* in the queue, every entry below the root has a key >= its parent's key.
C1_HeapOrder == HeapOrdered(queue, elems)

\* C2: after any such sequence, every entry's _index is its array position,
\* a number in 0..len-1.
C2_HandleIndex == IndicesRight(queue, elems)

\* C4: remove(h) of a handle in a well-formed queue of n >= 1 entries returns
\* h without error and leaves exactly the other n-1 entries.
C4_RemoveTakesOutHandle ==
    (res.op = "remove" /\ WellFormed(pre.q, pre.e)) =>
        /\ res.st = "ok"
        /\ res.ret = res.args[1]
        /\ Range(queue) = Range(pre.q) \ {res.args[1]}
        /\ Len(queue) = Len(pre.q) - 1

\* C5: after add and remove_min calls only, remove_min on a non-empty queue
\* returns an entry whose key is <= every remaining key and shrinks the queue
\* by one.
C5_RemoveMinIsLeast ==
    (res.op = "remove_min" /\ pre.ops \subseteq {"add", "remove_min"} /\ Len(pre.q) >= 1) =>
        /\ res.st = "ok"
        /\ Len(queue) = Len(pre.q) - 1
        /\ \A x \in Range(queue) : elems[res.ret].key <= elems[x].key

\* C6: on a queue built by add calls, update_key(h, k) returns, and with k
\* below h's key the key min() reports does not grow, with k above it the key
\* min() reports is not below the least key present.
C6_UpdateKeyAndMin ==
    (res.op = "update_key" /\ pre.ops \subseteq {"add"}) =>
        LET h == res.args[1]
            k == res.args[2]
        IN  /\ k < pre.e[h].key =>
                /\ res.st = "ok"
                /\ elems[min(Heap)].key <= pre.e[min([q |-> pre.q])].key
            /\ k > pre.e[h].key =>
                /\ res.st = "ok"
                /\ elems[min(Heap)].key >= MinOfKeys(queue, elems)

\* the entries of the queue, their keys, positions and indices are those the
\* last call started from
QueueUntouched ==
    /\ queue = pre.q
    /\ \A x \in Range(queue) : elems[x] = pre.e[x]

\* the last call ended by an exception
Failed == res.st \in {"IndexError", "KeyError", "AttributeError"}

\* C11: update_key(h, k) or remove(h) on a handle that remove or remove_min
\* has returned fails with an error and leaves the queue as it was.
C11_DetachedHandleFails ==
    (res.op \in {"update_key", "remove"} /\ res.args[1] \in pre.detached) =>
        (Failed /\ QueueUntouched)

\* C12: min() and remove_min() on an empty queue fail with an error, return
\* no entry and leave the queue empty.
C12_EmptyQueueFails ==
    (res.op \in {"min", "remove_min"} /\ pre.q = <<>>) =>
        /\ Failed
        /\ res.ret = 0
        /\ queue = <<>>
        /\ elems = pre.e

\* remove_min has failed on a queue that had held entries and was emptied
C12_Witness ==
    /\ res.op = "remove_min"
    /\ pre.q = <<>>
    /\ Len(pre.e) >= 2
    /\ res.st = "IndexError"
    /\ queue = <<>>

\* the key of the entry at Python index i of the array the last call started from
KeyBefore(i) == pre.e[At(pre.q, i)].key

\* C19: bubble_down(i) from an entry whose key is <= the key of the child
\* min_leaf chooses swaps nothing: the array and the entries' indices are
\* left as they were.
C19_NoSwapOnEqualKeys ==
    (/\ res.op = "bubble_down"
     /\ 2 * res.args[1] + 1 < Len(pre.q)
     /\ KeyBefore(res.args[1]) <= KeyBefore(min_leaf([q |-> pre.q, e |-> pre.e], res.args[1]))) =>
        /\ res.st = "ok"
        /\ queue = pre.q
        /\ elems = pre.e

\* ---------------------------------------------------- the graph as a machine
G == [vlabel |-> vlabel, structure |-> structure, findvertex |-> findvertex,
      vertexcoords |-> vertexcoords, nedge |-> nedge, cls |-> cls]

GraphSnapshot == [vlabel |-> vlabel, structure |-> structure]

Vertices == 1..Len(vlabel)

\* Graph() or RouteMap()
InitObject(c) ==
    /\ vlabel = <<>>
    /\ structure = <<>>
    /\ findvertex = <<>>
    /\ vertexcoords = <<>>
    /\ nedge = 0
    /\ cls = c
    /\ queue = <<>>
    /\ elems = <<>>
    /\ ops = {}
    /\ detached = {}
    /\ run = Idle
    /\ res = [op |-> "init", st |-> "ok", args |-> <<>>, ret |-> 0]
    /\ pre = [vlabel |-> <<>>, structure |-> <<>>]

AddVertex(element) ==
    /\ run.pc = "idle"
    /\ Len(vlabel) < MaxVerts
    /\ LET g == add_vertex(G, element) IN
        /\ vlabel' = g.vlabel
        /\ structure' = g.structure
        /\ findvertex' = g.findvertex
        /\ vertexcoords' = g.vertexcoords
        /\ res' = [op |-> "add_vertex", st |-> "ok", args |-> <<element>>,
                   ret |-> Len(vlabel) + 1]
    /\ pre' = GraphSnapshot
    /\ UNCHANGED <<queue, elems, ops, detached, nedge, cls, run>>

AddEdge(v, w, element, oneway) ==
    /\ run.pc = "idle"
    /\ nedge < MaxEdges
    /\ LET r == add_edge(G, v, w, element, oneway) IN
        /\ structure' = r.g.structure
        /\ nedge' = r.g.nedge
        /\ res' = [op |-> "add_edge", st |-> "ok", args |-> <<v, w, element, oneway>>,
                   ret |-> r.ret.id]
    /\ pre' = GraphSnapshot
    /\ UNCHANGED <<queue, elems, ops, detached, vlabel, findvertex, vertexcoords, cls, run>>

AddVertexIfNew(element) ==
    /\ run.pc = "idle"
    /\ Len(vlabel) < MaxVerts
    /\ LET r == add_vertex_if_new(G, element) IN
        /\ vlabel' = r.g.vlabel
        /\ structure' = r.g.structure
        /\ findvertex' = r.g.findvertex
        /\ vertexcoords' = r.g.vertexcoords
        /\ res' = [op |-> "add_vertex_if_new", st |-> "ok", args |-> <<element>>,
                   ret |-> r.ret]
    /\ pre' = GraphSnapshot
    /\ UNCHANGED <<queue, elems, ops, detached, nedge, cls, run>>

\* add_edge_pairs(elist), elist a list of pairs of Vertex objects
AddEdgePairs(elist) ==
    /\ run.pc = "idle"
    /\ nedge + Len(elist) <= MaxEdges
    /\ LET g == add_edge_pairs(G, elist) IN
        /\ structure' = g.structure
        /\ nedge' = g.nedge
        /\ res' = [op |-> "add_edge_pairs", st |-> "ok", args |-> <<elist>>, ret |-> 0]
    /\ pre' = GraphSnapshot
    /\ UNCHANGED <<queue, elems, ops, detached, vlabel, findvertex, vertexcoords, cls, run>>

\* get_vertex_by_label(element) called on the object; a KeyError ends the call
GetVertexByLabel(element) ==
    /\ run.pc = "idle"
    /\ LET v == get_vertex_by_label(G, element) IN
        res' = [op |-> "get_vertex_by_label", st |-> IF v = -1 THEN "KeyError" ELSE "ok",
                args |-> <<element>>, ret |-> IF v = -1 THEN 0 ELSE v]
    /\ pre' = GraphSnapshot
    /\ UNCHANGED <<queue, elems, ops, detached, vlabel, structure, findvertex, vertexcoords,
                   nedge, cls, run>>

\* a label that is on no vertex yet: the n+1-th label for the n+1-th vertex
Fresh == AllLabels[Len(vlabel) + 1]

\* a label for add_vertex_if_new: one already on a vertex, or the next unused one
UsedOrFresh == Range(vlabel) \cup {Fresh}

\* the lists of at most MaxPairs pairs of the Vertex objects V
RECURSIVE ListsOf(_, _)
ListsOf(S, n) ==
    IF n = 0 THEN {<<>>}
    ELSE ListsOf(S, n - 1) \cup {Append(l, x) : l \in ListsOf(S, n - 1), x \in S}

PairLists(V) == ListsOf({<<v, w>> : v \in V, w \in V}, MaxPairs)

\* add_edge is called with any two Vertex objects, also one that is not in the graph
NextGraph ==
    \/ AddVertex(Fresh)
    \/ \E element \in UsedOrFresh : AddVertexIfNew(element)
    \/ \E v \in Vertices \cup {0}, w \in Vertices \cup {0}, oneway \in BOOLEAN :
          AddEdge(v, w, 1, oneway)
    \/ \E elist \in PairLists(Vertices \cup {0}) : AddEdgePairs(elist)

SpecGraph == InitObject("Graph") /\ [][NextGraph]_vars

\* ------------------------------------------------------------ dijkstra
\* The locals of dijkstra(graph, vertex): run.locs, run.closed and run.preds
\* are the dicts of the same names; run.mkey and run.vert are min._key and
\* vert of the loop iteration; run.v the vertex looked up; run.pending the
\* edges the for loop has still to visit.  open is <<queue, elems>>.
\* run.fn is the function called first, run.dest and run.w the w of sp(v, w),
\* run.out the hop records printed so far.

\* lines 367-372, as the first step of dijkstra(source) or of sp(source, dest)
Call(fn, source, dest) ==
    /\ run.pc = "idle"
    /\ LET h == add(APQ, 0, source) IN
        /\ queue' = h.q
        /\ elems' = h.e
    /\ run' = [pc |-> "while", fn |-> fn, source |-> source, dest |-> dest,
               locs |-> <<[k |-> source, v |-> 0]>>,
               closed |-> <<>>,
               preds |-> <<[k |-> source, v |-> None]>>,
               mkey |-> 0, vert |-> None, v |-> 0, pending |-> <<>>,
               w |-> dest, out |-> <<>>]
    /\ res' = [op |-> fn, st |-> "ok", args |-> <<source, dest>>, ret |-> 0]
    /\ pre' = GraphSnapshot
    /\ UNCHANGED <<ops, detached, vlabel, structure, findvertex, vertexcoords, nedge, cls>>

DijkstraCall(source) == Call("dijkstra", source, None)

\* the call ends by an exception (or never ends: "hang")
Abort(err) ==
    /\ run' = [run EXCEPT !.pc = "raised"]
    /\ res' = [res EXCEPT !.st = err]

\* lines 373-381: the loop test, remove_min, the finalisation of vert and
\* the lookup of its edges (r, vert, v and edges are each the one value of
\* their expression)
DijkstraPop ==
    /\ run.pc = "while"
    /\ Len(queue) > 0
    /\ \E r \in {remove_min(Heap)} :
       \E vert \in {r.h.e[r.ret].value} :
       \E v \in {get_vertex_by_label(G, vert)} :
       \E edges \in {get_edges(G, v)} :
        /\ queue' = r.h.q
        /\ elems' = r.h.e
        /\ IF r.h.st # "ok" THEN Abort(r.h.st)
           ELSE IF ~DictHas(run.locs, vert) \/ ~DictHas(run.preds, vert) THEN Abort("KeyError")
           ELSE IF v = -1
           THEN /\ run' = [run EXCEPT !.pc = "raised",
                             !.locs = DictPop(run.locs, vert),
                             !.preds = DictPop(run.preds, vert),
                             !.closed = DictSet(run.closed, vert,
                                 <<r.h.e[r.ret].key, DictGet(run.preds, vert)>>),
                             !.mkey = r.h.e[r.ret].key, !.vert = vert]
                /\ res' = [res EXCEPT !.st = "KeyError"]
           ELSE /\ run' = [run EXCEPT !.pc = IF edges = <<>> THEN "while" ELSE "for",
                             !.locs = DictPop(run.locs, vert),
                             !.preds = DictPop(run.preds, vert),
                             !.closed = DictSet(run.closed, vert,
                                 <<r.h.e[r.ret].key, DictGet(run.preds, vert)>>),
                             !.mkey = r.h.e[r.ret].key, !.vert = vert, !.v = v,
                             !.pending = edges]
                /\ UNCHANGED res
    /\ UNCHANGED <<ops, detached, vlabel, structure, findvertex, vertexcoords, nedge, cls, pre>>

\* the for loop without its test "if opposite._element not in closed"
DijkstraRelax_unclosed ==
    /\ run.pc = "for"
    /\ \E edge \in {Head(run.pending)} :
       \E rest \in {Tail(run.pending)} :
       \E opp \in {vlabel[opposite(edge, run.v)]} :
       \E newcost \in {IF edge.element = NoneElement THEN NoneElement
                       ELSE run.mkey + edge.element} :
       \E pcnext \in {IF rest = <<>> THEN "while" ELSE "for"} :
        IF edge.element = NoneElement
        THEN /\ Abort("TypeError")
             /\ UNCHANGED <<queue, elems>>
        ELSE IF ~DictHas(run.locs, opp)
        THEN \E h \in {add(Heap, newcost, opp)} :
             /\ queue' = h.q
             /\ elems' = h.e
             /\ IF h.st # "ok" THEN Abort(h.st)
                ELSE /\ run' = [run EXCEPT !.pc = pcnext, !.pending = rest,
                                  !.preds = DictSet(run.preds, opp, run.vert),
                                  !.locs = DictSet(run.locs, opp, Len(elems) + 1)]
                     /\ UNCHANGED res
        ELSE IF DictGet(run.locs, opp) = 0
        THEN \* locs[vertex] = 0 is an int: it has no _key
             /\ Abort("AttributeError")
             /\ UNCHANGED <<queue, elems>>
        ELSE IF elems[DictGet(run.locs, opp)].key > newcost
        THEN \E h \in {update_key(Heap, DictGet(run.locs, opp), newcost)} :
             /\ queue' = h.q
             /\ elems' = h.e
             /\ IF h.st # "ok"
                THEN /\ run' = [run EXCEPT !.pc = "raised",
                                  !.preds = DictSet(run.preds, opp, run.vert)]
                     /\ res' = [res EXCEPT !.st = h.st]
                ELSE /\ run' = [run EXCEPT !.pc = pcnext, !.pending = rest,
                                  !.preds = DictSet(run.preds, opp, run.vert)]
                     /\ UNCHANGED res
        ELSE /\ run' = [run EXCEPT !.pc = pcnext, !.pending = rest]
             /\ UNCHANGED <<queue, elems, res>>
    /\ UNCHANGED <<ops, detached, vlabel, structure, findvertex, vertexcoords, nedge, cls, pre>>

\* lines 381-391: one iteration of the for loop over the edges of v (edge,
\* opp, newcost and h are each the one value of their expression; newcost is
\* read only where line 384 has been passed without its TypeError)
DijkstraRelax ==
    /\ run.pc = "for"
    /\ \E edge \in {Head(run.pending)} :
       \E rest \in {Tail(run.pending)} :
       \E opp \in {vlabel[opposite(edge, run.v)]} :
       \E newcost \in {IF edge.element = NoneElement THEN NoneElement
                       ELSE run.mkey + edge.element} :
       \E pcnext \in {IF rest = <<>> THEN "while" ELSE "for"} :
        IF DictHas(run.closed, opp)
        THEN /\ run' = [run EXCEPT !.pc = pcnext, !.pending = rest]
             /\ UNCHANGED <<queue, elems, res>>
        ELSE IF edge.element = NoneElement
        THEN \* min._key + None
             /\ Abort("TypeError")
             /\ UNCHANGED <<queue, elems>>
        ELSE IF ~DictHas(run.locs, opp)
        THEN \E h \in {add(Heap, newcost, opp)} :
             /\ queue' = h.q
             /\ elems' = h.e
             /\ IF h.st # "ok" THEN Abort(h.st)
                ELSE /\ run' = [run EXCEPT !.pc = pcnext, !.pending = rest,
                                  !.preds = DictSet(run.preds, opp, run.vert),
                                  !.locs = DictSet(run.locs, opp, Len(elems) + 1)]
                     /\ UNCHANGED res
        ELSE IF DictGet(run.locs, opp) = 0
        THEN \* locs[vertex] = 0 is an int: it has no _key
             /\ Abort("AttributeError")
             /\ UNCHANGED <<queue, elems>>
        ELSE IF elems[DictGet(run.locs, opp)].key > newcost
        THEN \E h \in {update_key(Heap, DictGet(run.locs, opp), newcost)} :
             /\ queue' = h.q
             /\ elems' = h.e
             /\ IF h.st # "ok"
                THEN /\ run' = [run EXCEPT !.pc = "raised",
                                  !.preds = DictSet(run.preds, opp, run.vert)]
                     /\ res' = [res EXCEPT !.st = h.st]
                ELSE /\ run' = [run EXCEPT !.pc = pcnext, !.pending = rest,
                                  !.preds = DictSet(run.preds, opp, run.vert)]
                     /\ UNCHANGED res
        ELSE /\ run' = [run EXCEPT !.pc = pcnext, !.pending = rest]
             /\ UNCHANGED <<queue, elems, res>>
    /\ UNCHANGED <<ops, detached, vlabel, structure, findvertex, vertexcoords, nedge, cls, pre>>

\* lines 373, 392-396: the queue is empty and dijkstra returns closed (the
\* table returned is run.closed); sp goes on to its own loop
DijkstraReturn ==
    /\ run.pc = "while"
    /\ Len(queue) = 0
    /\ run' = [run EXCEPT !.pc = IF run.fn = "sp" THEN "walk" ELSE "done"]
    /\ UNCHANGED <<queue, elems, ops, detached, vlabel, structure, findvertex, vertexcoords, nedge, cls,
                   res, pre>>

Dijkstra == DijkstraPop \/ DijkstraRelax \/ DijkstraReturn

\* graphs for dijkstra: edges between vertices of the graph, with a cost
NextDijkstra ==
    \/ AddVertex(Fresh)
    \/ \E v \in Vertices, w \in Vertices, c \in Costs, oneway \in BOOLEAN :
          AddEdge(v, w, c, oneway)
    \/ \E elist \in PairLists(Vertices) : AddEdgePairs(elist)
    \/ \E source \in Labels : DijkstraCall(source)
    \/ Dijkstra

SpecDijkstra == InitObject("Graph") /\ [][NextDijkstra]_vars

\* every Edge stored goes from a vertex to one created later
AllForward ==
    \A x \in Vertices : \A i \in 1..Len(structure[x]) :
        structure[x][i].v.v < structure[x][i].v.w

\* Graph() or RouteMap()
InitEither == \E c \in {"Graph", "RouteMap"} : InitObject(c)

\* graphs for whole runs, on an object of either class: the vertices first,
\* then edges between any two of them, self-loops and edges added again
\* included, and a third edge where all three go from a vertex to a later
\* one; dijkstra is called at any time, also with a label that is on no vertex
NextRuns ==
    \/ AddVertex(Fresh)
    \/ \E v \in Vertices, w \in Vertices, c \in Costs, oneway \in BOOLEAN :
          /\ Len(vlabel) = MaxVerts
          /\ (nedge < MaxFewEdges \/ (v < w /\ AllForward))
          /\ AddEdge(v, w, c, oneway)
    \/ \E elist \in PairLists(Vertices) :
          /\ Len(vlabel) = MaxVerts
          /\ \/ nedge + Len(elist) <= MaxFewEdges
             \/ (AllForward /\ \A i \in 1..Len(elist) : elist[i][1] < elist[i][2])
          /\ AddEdgePairs(elist)
    \/ \E source \in Labels : DijkstraCall(source)
    \/ Dijkstra

\* a call of dijkstra that has started keeps running: the interpreter takes
\* the next step of the loop as long as there is one (every step of the loop
\* changes the locals)
SpecDijkstraFair == InitEither /\ [][NextRuns]_vars /\ WF_run(Dijkstra)

\* graphs whose vertices may share labels
NextLabels ==
    \/ \E element \in UsedOrFresh : AddVertex(element)
    \/ \E element \in UsedOrFresh : AddVertexIfNew(element)
    \/ \E v \in Vertices, w \in Vertices, c \in Costs, oneway \in BOOLEAN :
          nedge < MaxFewEdges /\ AddEdge(v, w, c, oneway)
    \/ \E source \in Labels : DijkstraCall(source)
    \/ Dijkstra

SpecLabels == InitObject("Graph") /\ [][NextLabels]_vars

\* a RouteMap whose vertices may share labels, and lookups of any label
NextLookup ==
    \/ \E element \in UsedOrFresh : AddVertex(element)
    \/ \E element \in UsedOrFresh : AddVertexIfNew(element)
    \/ \E v \in Vertices, w \in Vertices, oneway \in BOOLEAN :
          nedge < MaxFewEdges /\ AddEdge(v, w, 1, oneway)
    \/ \E element \in Labels : GetVertexByLabel(element)

SpecLookup == InitObject("RouteMap") /\ [][NextLookup]_vars

\* the Graph that the add_vertex calls with these elements build
RECURSIVE GraphOf(_)
GraphOf(elements) ==
    IF elements = <<>>
    THEN [vlabel |-> <<>>, structure |-> <<>>, findvertex |-> <<>>,
          vertexcoords |-> <<>>, nedge |-> 0, cls |-> "Graph"]
    ELSE Graph_add_vertex(GraphOf(SubSeq(elements, 1, Len(elements) - 1)),
                          elements[Len(elements)])

\* C15: get_vertex_by_label(x) on a RouteMap ends as it does on the Graph
\* built by the same add_vertex calls: it returns the corresponding vertex
\* (the n-th created for the n-th created), or None where the Graph does.
C15_LookupAsGraph ==
    (cls = "RouteMap" /\ res.op = "get_vertex_by_label") =>
        /\ res.st = "ok"
        /\ res.ret = get_vertex_by_label(GraphOf(vlabel), res.args[1])

\* ---------------------------------------------------------- RouteMap.sp
\* sp_step reading the table as closed.get(w, (None, None))
sp_step_get(g, closed, w) ==
    LET label == get_vertex_by_label(g, w) IN
    IF label = -1 \/ ~DictHas(g.vertexcoords, label)
    THEN [st |-> "KeyError", rec |-> <<>>, w |-> w]
    ELSE [st |-> "ok",
          rec |-> <<[type |-> "W",
                     latitude |-> DictGet(g.vertexcoords, label)[1],
                     longitude |-> DictGet(g.vertexcoords, label)[2],
                     element |-> w,
                     cost |-> IF DictHas(closed, w) THEN DictGet(closed, w)[1] ELSE 0]>>,
          w |-> IF DictHas(closed, w) THEN DictGet(closed, w)[2] ELSE None]

\* sp_step with "w = closed[w][1]" moved up before the cost is read: the
\* record carries the cost of the predecessor
sp_step_late_cost(g, closed, w) ==
    LET label == get_vertex_by_label(g, w) IN
    IF label = -1 \/ ~DictHas(g.vertexcoords, label) \/ ~DictHas(closed, w)
    THEN [st |-> "KeyError", rec |-> <<>>, w |-> w]
    ELSE IF ~DictHas(closed, DictGet(closed, w)[2])
    THEN [st |-> "KeyError", rec |-> <<>>, w |-> DictGet(closed, w)[2]]
    ELSE [st |-> "ok",
          rec |-> <<[type |-> "W",
                     latitude |-> DictGet(g.vertexcoords, label)[1],
                     longitude |-> DictGet(g.vertexcoords, label)[2],
                     element |-> w,
                     cost |-> DictGet(closed, DictGet(closed, w)[2])[1]]>>,
          w |-> DictGet(closed, w)[2]]

\* lines 460-466, one iteration of the while loop of sp for w # v:
\* [st |-> the outcome, rec |-> the hop record printed, w |-> the next w]
sp_step(g, closed, w) ==
    LET label == get_vertex_by_label(g, w) IN
    IF label = -1 \/ ~DictHas(g.vertexcoords, label) \/ ~DictHas(closed, w)
    THEN [st |-> "KeyError", rec |-> <<>>, w |-> w]
    ELSE [st |-> "ok",
          rec |-> <<[type |-> "W",
                     latitude |-> DictGet(g.vertexcoords, label)[1],
                     longitude |-> DictGet(g.vertexcoords, label)[2],
                     element |-> w,
                     cost |-> DictGet(closed, w)[1]]>>,
          w |-> DictGet(closed, w)[2]]

\* line 457: sp(v, w) starts by calling dijkstra(self, v)
SpCall(v, w) == Call("sp", v, w)

\* lines 459-466: the loop test and one iteration, or the return
SpWalk ==
    /\ run.pc = "walk"
    /\ IF run.w = run.source
       THEN /\ run' = [run EXCEPT !.pc = "done"]
            /\ UNCHANGED res
       ELSE \E r \in {sp_step(G, run.closed, run.w)} :
            IF r.st # "ok"
            THEN Abort(r.st)
            ELSE /\ run' = [run EXCEPT !.w = r.w, !.out = run.out \o r.rec]
                 /\ UNCHANGED res
    /\ UNCHANGED <<queue, elems, ops, detached, vlabel, structure, findvertex, vertexcoords, nedge, cls, pre>>

NextRoute ==
    \/ AddVertex(Fresh)
    \/ \E v \in Vertices, w \in Vertices, c \in Costs, oneway \in BOOLEAN :
          nedge < MaxFewEdges /\ AddEdge(v, w, c, oneway)
    \/ \E elist \in PairLists(Vertices) :
          nedge + Len(elist) <= MaxFewEdges /\ AddEdgePairs(elist)
    \/ \E v \in Labels, w \in Labels : SpCall(v, w)
    \/ Dijkstra
    \/ SpWalk

SpecRoute == InitObject("RouteMap") /\ [][NextRoute]_vars

\* a call of sp that has reached its loop keeps running (every step of the
\* loop changes the locals)
SpecRouteFair == SpecRoute /\ WF_run(SpWalk)

\* ------------------------------------------------- shortest paths, by definition
\* What dijkstra is measured against: an arc u -> x of cost c for every item
\* (x, edge of element c) of u's adjacency dict.
MaxCost == CHOOSE c \in Costs : \A d \in Costs : d <= c

\* more than any shortest path costs
Far == MaxVerts * MaxCost + 1

MinOf(S) == CHOOSE x \in S : \A y \in S : x <= y

\* one round of relaxation of the distance table d
RelaxAll(d) ==
    [x \in Vertices |->
        MinOf({d[x]} \cup {d[u] + DictGet(structure[u], x).element :
                  u \in {u \in Vertices : d[u] < Far /\ DictHas(structure[u], x)}})]

RECURSIVE RelaxRounds(_, _)
RelaxRounds(d, n) == IF n = 0 THEN d ELSE RelaxRounds(RelaxAll(d), n - 1)

\* the true distance of every vertex from vertex s (Far: unreachable)
Distances(s) ==
    RelaxRounds([x \in Vertices |-> IF x = s THEN 0 ELSE Far], Len(vlabel))

\* the vertex the run started from (0: the label is on no vertex)
SourceVertex == Graph_get_vertex_by_label(G, run.source)

\* the labels reachable from the source along adjacency-dict items
ReachableLabels ==
    {run.source} \cup
    (IF SourceVertex = 0 THEN {}
     ELSE {vlabel[x] : x \in {x \in Vertices : Distances(SourceVertex)[x] < Far}})

Returned == run.pc = "done" /\ run.fn = "dijkstra"

\* every Edge of the graph has a number as its element, none has None
NumericCosts ==
    \A v \in Vertices : \A i \in 1..Len(structure[v]) :
        structure[v][i].v.element # NoneElement

\* C3: when dijkstra returns, every vertex reachable from the source is in the
\* table with its true shortest-path distance.
C3_ShortestDistances ==
    (Returned /\ SourceVertex # 0 /\ NumericCosts) =>
        \A x \in Vertices :
            Distances(SourceVertex)[x] < Far =>
                /\ DictHas(run.closed, vlabel[x])
                /\ DictGet(run.closed, vlabel[x])[1] = Distances(SourceVertex)[x]

\* no two vertices of the graph carry the same label
DistinctLabels == \A x, y \in Vertices : vlabel[x] = vlabel[y] => x = y

\* C9 as stated: when dijkstra returns, the keys of the table are exactly the
\* labels reachable from the source, on every graph.
C9_Original ==
    Returned => DictKeys(run.closed) = ReachableLabels

\* C9, amended: when dijkstra returns on a graph with distinct vertex labels,
\* the keys of the table are exactly the labels reachable from the source.
C9_ClosedIsReachable ==
    (Returned /\ DistinctLabels) => DictKeys(run.closed) = ReachableLabels

\* a returned run that finalized two labels or more and left out a vertex
\* which has a one-way edge into a finalized vertex
C9_Witness ==
    /\ Returned
    /\ DistinctLabels
    /\ Cardinality(DictKeys(run.closed)) >= 2
    /\ \E x \in Vertices, y \in Vertices :
          /\ ~DictHas(run.closed, vlabel[x])
          /\ DictHas(run.closed, vlabel[y])
          /\ DictHas(structure[x], y)
          /\ ~DictHas(structure[y], x)

\* the first vertex labelled p has in its adjacency dict an edge to a vertex
\* labelled w whose cost added to p's distance in the table is d
EdgeFromPred(p, w, d) ==
    LET pv == Graph_get_vertex_by_label(G, p) IN
    /\ pv # 0
    /\ \E j \in 1..Len(structure[pv]) :
          /\ vlabel[structure[pv][j].k] = w
          /\ structure[pv][j].v.element # NoneElement
          /\ d = DictGet(run.closed, p)[1] + structure[pv][j].v.element

\* C14: in the table dijkstra returns, the source has (0, None) and is the
\* only entry with predecessor None; every other entry w has (d, p) with p in
\* the table, an edge from p to w in p's adjacency dict, and d the distance of
\* p plus the cost of that edge.
C14_PredecessorsValid ==
    Returned =>
        /\ DictHas(run.closed, run.source)
        /\ DictGet(run.closed, run.source) = <<0, None>>
        /\ \A i \in 1..Len(run.closed) :
              run.closed[i].k # run.source =>
                  /\ run.closed[i].v[2] # None
                  /\ DictHas(run.closed, run.closed[i].v[2])
                  /\ EdgeFromPred(run.closed[i].v[2], run.closed[i].k, run.closed[i].v[1])

\* a returned table of three entries, one of them reached through a vertex
\* other than the source although an edge joins it to the source
C14_Witness ==
    /\ Returned
    /\ Len(run.closed) = 3
    /\ \E i \in 1..Len(run.closed) :
          /\ run.closed[i].k # run.source
          /\ run.closed[i].v[2] # run.source
          /\ SourceVertex # 0
          /\ \E j \in 1..Len(structure[SourceVertex]) :
                vlabel[structure[SourceVertex][j].k] = run.closed[i].k

InLoop == run.pc \in {"while", "for"}

\* no two Elements created by the run carry the same label
InsertedOnce ==
    run.pc # "idle" =>
        \A i, j \in 1..Len(elems) : elems[i].value = elems[j].value => i = j

\* the label that remove_min hands to the loop is not in the table yet
RemovedOnce ==
    (run.pc = "while" /\ run'.pc \in {"while", "for"} /\ Len(queue) > 0) =>
        ~DictHas(run.closed, run'.vert)

\* C16 as stated: on a graph with distinct labels a dijkstra call that has
\* started returns: the loop finds the APQ empty; every label is inserted
\* into the APQ at most once and removed from it at most once.
C16_Original ==
    /\ [](DistinctLabels => InsertedOnce)
    /\ [][DistinctLabels => RemovedOnce]_vars
    /\ ((run.pc \in {"while", "for"} /\ DistinctLabels) ~> Returned)

\* the run has ended at line 384, by the TypeError of a number plus None
RaisedTypeError == run.pc = "raised" /\ res.st = "TypeError"

\* graph.get_vertex_by_label(source) finds a vertex or returns None: the
\* object is a Graph, or a RouteMap that has the source label in _findvertex
SourceLookedUp == cls = "Graph" \/ DictHas(findvertex, run.source)

\* the run has ended at line 379, by the KeyError of a RouteMap that has no
\* vertex of the source label, with the source as the only entry of closed
RaisedKeyError ==
    /\ run.pc = "raised"
    /\ res.st = "KeyError"
    /\ ~SourceLookedUp
    /\ DictKeys(run.closed) = {run.source}

\* a run that has ended by an exception has ended by one of these two, the
\* TypeError on a graph that has an edge of element None
RaisedOnlyBy ==
    run.pc = "raised" =>
        \/ RaisedTypeError /\ ~NumericCosts
        \/ RaisedKeyError

\* C16, amended: on a graph with distinct labels a dijkstra call that has
\* started ends.  It returns, the loop finding the APQ empty, when every edge
\* element is a number and the source label is on a vertex or the object is
\* a plain Graph; otherwise it returns, or raises KeyError at the lookup of a
\* source label that a RouteMap has no vertex for, or raises TypeError at the
\* first None element it has to add.  Every label is inserted into the APQ
\* at most once and removed from it at most once.
C16_Terminates ==
    /\ [](DistinctLabels => InsertedOnce)
    /\ [][DistinctLabels => RemovedOnce]_vars
    /\ [](DistinctLabels => RaisedOnlyBy)
    /\ ((InLoop /\ DistinctLabels) ~> (Returned \/ run.pc = "raised"))

\* a run over three vertices has returned after an update_key
C16_Witness ==
    /\ Returned
    /\ Len(run.closed) = 3
    /\ Len(elems) = 3
    /\ \E i \in 1..Len(run.closed) :
          /\ run.closed[i].k # run.source
          /\ run.closed[i].v[2] # run.source
          /\ SourceVertex # 0
          /\ DictHas(structure[SourceVertex], Graph_get_vertex_by_label(G, run.closed[i].k))
          /\ run.closed[i].v[1] <
                DictGet(structure[SourceVertex],
                        Graph_get_vertex_by_label(G, run.closed[i].k)).element

\* a dijkstra loop is running
\* every entry of the table is in the table after the step, unchanged
ClosedKept ==
    /\ Len(run'.closed) >= Len(run.closed)
    /\ \A i \in 1..Len(run.closed) : run'.closed[i] = run.closed[i]

\* an Element the step creates does not carry a label of the table
NoClosedAdded ==
    \A x \in (Len(elems) + 1)..Len(elems') : ~DictHas(run.closed, elems'[x].value)

\* C17: during a dijkstra run no step changes or removes an entry of the
\* closed table, no step adds a label of the table to the APQ, and no entry
\* of the APQ carries a label of the table.
C17_ClosedIsFinal ==
    /\ [](InLoop => \A x \in Range(queue) : ~DictHas(run.closed, elems[x].value))
    /\ [][InLoop => (ClosedKept /\ NoClosedAdded)]_vars

\* a returned table with an entry that a later-finalized vertex has a cheaper
\* edge to: the entry was kept as written
C17_Witness ==
    /\ Returned
    /\ \E i \in 1..Len(run.closed), j \in 1..Len(run.closed) :
          /\ i < j
          /\ LET y == Graph_get_vertex_by_label(G, run.closed[j].k) IN
              /\ y # 0
              /\ \E n \in 1..Len(structure[y]) :
                    /\ vlabel[structure[y][n].k] = run.closed[i].k
                    /\ run.closed[j].v[1] + structure[y][n].v.element < run.closed[i].v[1]

\* ---------------------------------------------------- claims on the graph
\* the Edge objects stored in some adjacency dict
StoredEdges == UNION {{structure[v][i].v : i \in 1..Len(structure[v])} : v \in Vertices}

\* what is true after add_edge calls on pairwise different pairs of distinct
\* vertices, and only then: every Edge created is still stored, none is a
\* self-loop and no two join the same two vertices
DistinctPairs ==
    /\ Cardinality(StoredEdges) = nedge
    /\ \A e \in StoredEdges : e.v # e.w
    /\ \A e, f \in StoredEdges : e # f => {e.v, e.w} # {f.v, f.w}

\* C7: after k two-way and m one-way edges on pairwise different pairs,
\* num_edges() is k + m, the number of Edges created.
C7_NumEdges == DistinctPairs => num_edges(G) = nedge

\* add_edge(v, w, e, oneway) just returned an Edge
Added(oneway) ==
    /\ res.op = "add_edge"
    /\ res.ret # 0
    /\ res.args[4] = oneway

\* no edge joined v and w, in either direction, before the call
NoPriorEdge(v, w) == get_edge(pre, v, w) = NoEdge /\ get_edge(pre, w, v) = NoEdge

\* after a two-way add_edge(v, w), v # w, both directions return the new Edge
TwoWayBothDirections ==
    (Added(FALSE) /\ res.args[1] # res.args[2]) =>
        /\ res.ret = nedge
        /\ get_edge(G, res.args[1], res.args[2]).id = res.ret
        /\ get_edge(G, res.args[2], res.args[1]).id = res.ret

\* C8 as stated: ... and after a one-way add_edge(v, w) on a pair with no prior
\* edge, get_edge(v, w) is the new Edge and get_edge(w, v) is None.
C8_Original ==
    /\ TwoWayBothDirections
    /\ (Added(TRUE) /\ NoPriorEdge(res.args[1], res.args[2])) =>
        /\ res.ret = nedge
        /\ get_edge(G, res.args[1], res.args[2]).id = res.ret
        /\ get_edge(G, res.args[2], res.args[1]) = NoEdge

\* C8, amended: the one-way half holds for v # w (a one-way self-loop is
\* returned by get_edge(w, v), which is get_edge(v, v)).
C8_GetEdgeAfterAdd ==
    /\ TwoWayBothDirections
    /\ (Added(TRUE) /\ res.args[1] # res.args[2] /\ NoPriorEdge(res.args[1], res.args[2])) =>
        /\ res.ret = nedge
        /\ get_edge(G, res.args[1], res.args[2]).id = res.ret
        /\ get_edge(G, res.args[2], res.args[1]) = NoEdge

\* a one-way edge was just added between two different vertices that no edge
\* joined, in a graph that holds a two-way edge as well
C8_Witness ==
    /\ Added(TRUE)
    /\ res.args[1] # res.args[2]
    /\ NoPriorEdge(res.args[1], res.args[2])
    /\ get_edge(G, res.args[2], res.args[1]) = NoEdge
    /\ \E v \in Vertices, w \in Vertices :
          v # w /\ get_edge(G, v, w) # NoEdge /\ get_edge(G, v, w) = get_edge(G, w, v)

\* C13: add_edge(v, w, element, oneway) with v or w not a vertex of the graph
\* returns None and leaves the vertices and every adjacency dict as they were,
\* for both values of oneway.
C13_AbsentVertexNoEdge ==
    (/\ res.op = "add_edge"
     /\ (~IsVertex(pre, res.args[1]) \/ ~IsVertex(pre, res.args[2]))) =>
        /\ res.ret = 0
        /\ structure = pre.structure
        /\ vlabel = pre.vlabel

\* a one-way add_edge from a vertex of a graph that holds an edge to a Vertex
\* that is not in the graph has returned None
C13_Witness ==
    /\ res.op = "add_edge"
    /\ IsVertex(pre, res.args[1])
    /\ ~IsVertex(pre, res.args[2])
    /\ res.args[4] = TRUE
    /\ res.ret = 0
    /\ StoredEdges # {}

\* the adjacency dict of x in st holds Edge e under the key y
Holds(st, x, y, e) == DictHas(st[x], y) /\ DictGet(st[x], y) = e

\* C18: an Edge between v # w that both endpoints' adjacency dicts hold (an
\* edge is in both only if it was added two-way, and a two-way add_edge puts
\* it in both) is, after any add_vertex or add_edge call, still in both or in
\* neither: wherever it is still stored, the other endpoint stores it too.
C18_AdjacencySymmetry ==
    [][\A e \in StoredEdges :
          (e.v # e.w /\ Holds(structure, e.v, e.w, e) /\ Holds(structure, e.w, e.v, e)) =>
              (Holds(structure', e.v, e.w, e) <=> Holds(structure', e.w, e.v, e))]_vars

\* ------------------------------------------------------- claims on sp
\* sp has reached its own loop with a destination that is a label of the
\* map and is not in the table dijkstra returned
Unfinalized ==
    /\ run.pc = "walk"
    /\ DictHas(findvertex, run.dest)
    /\ ~DictHas(run.closed, run.dest)

\* C10: sp(v, w) for a w of the map that the run from v never finalized ends
\* by an error, no hop record printed: a call that has ended has raised, and
\* a call that reaches the loop of sp raises in its first iteration.
C10_UnreachableFails ==
    /\ []((/\ run.pc \in {"done", "raised"}
           /\ run.fn = "sp"
           /\ DictHas(findvertex, run.dest)
           /\ ~DictHas(run.closed, run.dest))
          => (run.pc = "raised" /\ run.out = <<>>))
    /\ [][Unfinalized => (run'.pc = "raised" /\ res'.st = "KeyError" /\ run'.out = <<>>)]_vars

\* sp has failed on a destination of the map that is not in the table, the
\* table holding another vertex besides the source
C10_Witness ==
    /\ run.pc = "raised"
    /\ run.fn = "sp"
    /\ res.st = "KeyError"
    /\ DictHas(findvertex, run.dest)
    /\ ~DictHas(run.closed, run.dest)
    /\ Len(run.closed) >= 2
    /\ run.out = <<>>

\* the labels from w back to v (v left out) along the predecessors of the
\* table, at most n of them
RECURSIVE Chain(_, _, _, _)
Chain(closed, w, v, n) ==
    IF w = v \/ n = 0 \/ ~DictHas(closed, w) THEN <<>>
    ELSE <<w>> \o Chain(closed, DictGet(closed, w)[2], v, n - 1)

\* sp is in its loop, or has left it, for a destination that is in the table
Finalized(pcs) ==
    /\ run.pc \in pcs
    /\ run.fn = "sp"
    /\ DictHas(run.closed, run.dest)

\* the records printed are those of the chain from the destination, in its
\* order, each with the distance the table has for its vertex
RecordsOfChain ==
    LET chain == Chain(run.closed, run.dest, run.source, Len(run.closed)) IN
    /\ Len(run.out) = Len(chain)
    /\ Len(run.out) < Len(run.closed)
    /\ \A i \in 1..Len(chain) :
          /\ run.out[i].element = chain[i]
          /\ run.out[i].cost = DictGet(run.closed, chain[i])[1]
    /\ run.w = run.source

\* C20: sp(v, w) for a w in the table that the run from v returned ends: its
\* loop raises nothing and is left, one record printed for each vertex of the
\* predecessor chain from w except v (none when w = v), fewer records than
\* entries of the table, each with the distance of its vertex.
C20_SpTerminates ==
    /\ [](Finalized({"done"}) => RecordsOfChain)
    /\ [][Finalized({"walk"}) => Finalized({"walk", "done"})']_vars
    /\ (Finalized({"walk"}) ~> Finalized({"done"}))

\* sp has returned after two records: the destination is two hops from the
\* source
C20_Witness ==
    /\ Finalized({"done"})
    /\ Len(run.out) = 2
    /\ run.out[1].element = run.dest
    /\ run.out[2].element # run.dest
    /\ run.out[1].cost > run.out[2].cost

====
